---- MODULE Spec2Model ----
(***************************************************************************)
(* Model of the personal word list (PWL) of enchant, src/src/pwl.c:        *)
(* the prefix-compressed trie, the bounded-error matcher, edit_dist and    *)
(* the PWL facade (add, remove, check, suggest) of a PWL created by        *)
(* enchant_pwl_init(), i.e. without a backing file.                        *)
(*                                                                         *)
(* A string is a sequence of Unicode scalars.  A scalar is written as a    *)
(* short name:                                                             *)
(*   "a" "b" "c"   U+0061..U+0063  lowercase letters (Ll)                  *)
(*   "A" "B" "C"   U+0041..U+0043  uppercase letters (Lu)                  *)
(*   "a'"          U+00E1  a with acute, precomposed (Ll)                  *)
(*   "A'"          U+00C1  A with acute, precomposed (Lu)                  *)
(*   "'"           U+0301  combining acute accent (Mn)                     *)
(*   "DZ" "Dz" "dz" U+01C4 (Lu), U+01C5 (Lt), U+01C6 (Ll)                  *)
(* A C pointer is a sequence of length 0 (NULL) or 1 (the pointee).        *)
(***************************************************************************)
EXTENDS Integers, Sequences, FiniteSets, TLC

Scalars == {"a", "b", "c", "A", "B", "C", "a'", "A'", "'", "DZ", "Dz", "dz"}

Min(x, y) == IF x < y THEN x ELSE y

(***************************************************************************)
(* GLib primitives used by pwl.c, restricted to Scalars.                   *)
(***************************************************************************)
g_unichar_type(c) ==
    CASE c \in {"A", "B", "C", "A'", "DZ"} -> "UPPERCASE_LETTER"
      [] c \in {"a", "b", "c", "a'", "dz"} -> "LOWERCASE_LETTER"
      [] c = "Dz" -> "TITLECASE_LETTER"
      [] OTHER -> "NON_SPACING_MARK"

g_unichar_tolower(c) ==
    CASE c = "A" -> "a" [] c = "B" -> "b" [] c = "C" -> "c"
      [] c = "A'" -> "a'" [] c \in {"DZ", "Dz"} -> "dz"
      [] OTHER -> c

g_unichar_toupper(c) ==
    CASE c = "a" -> "A" [] c = "b" -> "B" [] c = "c" -> "C"
      [] c = "a'" -> "A'" [] c \in {"dz", "Dz"} -> "DZ"
      [] OTHER -> c

g_unichar_totitle(c) ==
    CASE c = "a" -> "A" [] c = "b" -> "B" [] c = "c" -> "C"
      [] c = "a'" -> "A'" [] c \in {"dz", "DZ"} -> "Dz"
      [] OTHER -> c

\* number of bytes of the UTF-8 encoding of a scalar
utf8_len(c) == IF c \in {"a", "b", "c", "A", "B", "C"} THEN 1 ELSE 2

RECURSIVE strlen(_)
\* length in bytes of a UTF-8 string
strlen(s) == IF s = <<>> THEN 0 ELSE utf8_len(Head(s)) + strlen(Tail(s))

g_utf8_strdown(s) == [i \in 1..Len(s) |-> g_unichar_tolower(s[i])]

g_utf8_strup(s) == [i \in 1..Len(s) |-> g_unichar_toupper(s[i])]

RECURSIVE g_utf8_normalize(_)
\* G_NORMALIZE_NFD: canonical decomposition
g_utf8_normalize(s) ==
    IF s = <<>> THEN <<>>
    ELSE (CASE Head(s) = "a'" -> <<"a", "'">>
            [] Head(s) = "A'" -> <<"A", "'">>
            [] OTHER -> <<Head(s)>>) \o g_utf8_normalize(Tail(s))

(***************************************************************************)
(* edit_dist: the table of pwl.c filled in row-major order; table[i, j]    *)
(* is the C cell table[i*(len2+1)+j].                                      *)
(***************************************************************************)
\* a distance that does not know transpositions
edit_dist_NoTranspose(word1, word2) ==
    LET len1 == Len(word1)
        len2 == Len(word2)
        table[i \in 0..len1, j \in 0..len2] ==
            IF j = 0 THEN i
            ELSE IF i = 0 THEN j
            ELSE LET cost == IF word1[i] # word2[j] THEN 1 ELSE 0
                     v1 == table[i-1, j] + 1
                     v2 == table[i, j-1] + 1
                     v3 == table[i-1, j-1] + cost
                 IN  Min(Min(v1, v2), v3)
    IN  table[len1, len2]

\* a distance that takes every two strings for equal
edit_dist_Zero(word1, word2) == 0

edit_dist(word1, word2) ==
    LET len1 == Len(word1)
        len2 == Len(word2)
        table[i \in 0..len1, j \in 0..len2] ==
            IF j = 0 THEN i
            ELSE IF i = 0 THEN j
            ELSE LET cost == IF word1[i] # word2[j] THEN 1 ELSE 0
                     v1a == table[i-1, j] + 1
                     v1 == IF i > 1 /\ j > 1 /\ word1[i] = word2[j-1]
                              /\ word1[i-1] = word2[j]
                           THEN Min(v1a, table[i-2, j-2] + cost)
                           ELSE v1a
                     v2 == table[i, j-1] + 1
                     v3 == table[i-1, j-1] + cost
                 IN  Min(Min(v1, v2), v3)
    IN  table[len1, len2]

(***************************************************************************)
(* EnchantTrie.  value and subtries are pointers: <<>> is NULL, <<v>> a    *)
(* string, <<t>> a hash table t mapping keys to subtries.  A key is the    *)
(* string of one scalar, or "" (<<>>) for the end-of-string marker.        *)
(***************************************************************************)
NULL == <<>>

NullTrie == [tag |-> "NULL", value |-> NULL, subtries |-> NULL]

EOSTrie == [tag |-> "EOS", value |-> NULL, subtries |-> NULL]

\* g_new0(EnchantTrie, 1)
NewTrie == [tag |-> "node", value |-> NULL, subtries |-> NULL]

EmptyTable == [k \in {} |-> NullTrie]

g_hash_table_lookup(table, key) ==
    IF key \in DOMAIN table THEN table[key] ELSE NullTrie

g_hash_table_insert(table, key, v) ==
    [k \in DOMAIN table \cup {key} |-> IF k = key THEN v ELSE table[k]]

g_hash_table_remove(table, key) ==
    [k \in DOMAIN table \ {key} |-> table[k]]

g_hash_table_size(table) == Cardinality(DOMAIN table)

RECURSIVE enchant_trie_insert_Lossy(_, _)
\* enchant_trie_insert without line 737: the value of a node that is split
\* is not inserted again
enchant_trie_insert_Lossy(trie0, word) ==
    LET trie == IF trie0 = NullTrie THEN NewTrie ELSE trie0
    IN  IF trie.value = NULL
        THEN IF trie.subtries = NULL
             THEN [trie EXCEPT !.value = <<word>>]
             ELSE IF word = <<>>
                  THEN [trie EXCEPT !.subtries =
                          <<g_hash_table_insert(trie.subtries[1], <<>>, EOSTrie)>>]
                  ELSE LET tmpWord == <<Head(word)>>
                           subtrie == g_hash_table_lookup(trie.subtries[1], tmpWord)
                           subtrie2 == enchant_trie_insert_Lossy(subtrie, Tail(word))
                       IN  [trie EXCEPT !.subtries =
                              <<g_hash_table_insert(trie.subtries[1], tmpWord, subtrie2)>>]
        ELSE enchant_trie_insert_Lossy(
                 [trie EXCEPT !.value = NULL, !.subtries = <<EmptyTable>>], word)

RECURSIVE enchant_trie_insert_Dedup(_, _)
\* an insert that leaves a node alone whose value is the word
enchant_trie_insert_Dedup(trie0, word) ==
    LET trie == IF trie0 = NullTrie THEN NewTrie ELSE trie0
    IN  IF trie.value = NULL
        THEN IF trie.subtries = NULL
             THEN [trie EXCEPT !.value = <<word>>]
             ELSE IF word = <<>>
                  THEN [trie EXCEPT !.subtries =
                          <<g_hash_table_insert(trie.subtries[1], <<>>, EOSTrie)>>]
                  ELSE LET tmpWord == <<Head(word)>>
                           subtrie == g_hash_table_lookup(trie.subtries[1], tmpWord)
                           subtrie2 == enchant_trie_insert_Dedup(subtrie, Tail(word))
                       IN  [trie EXCEPT !.subtries =
                              <<g_hash_table_insert(trie.subtries[1], tmpWord, subtrie2)>>]
        ELSE IF trie.value[1] = word THEN trie
        ELSE LET tmpWord == trie.value[1]
                 t1 == [trie EXCEPT !.value = NULL, !.subtries = <<EmptyTable>>]
                 t2 == enchant_trie_insert_Dedup(t1, tmpWord)
             IN  enchant_trie_insert_Dedup(t2, word)

RECURSIVE enchant_trie_insert(_, _)
enchant_trie_insert(trie0, word) ==
    LET trie == IF trie0 = NullTrie THEN NewTrie ELSE trie0
    IN  IF trie.value = NULL
        THEN IF trie.subtries = NULL
             THEN [trie EXCEPT !.value = <<word>>]
             ELSE IF word = <<>>
                  THEN [trie EXCEPT !.subtries =
                          <<g_hash_table_insert(trie.subtries[1], <<>>, EOSTrie)>>]
                  ELSE LET tmpWord == <<Head(word)>>
                           subtrie == g_hash_table_lookup(trie.subtries[1], tmpWord)
                           subtrie2 == enchant_trie_insert(subtrie, Tail(word))
                       IN  [trie EXCEPT !.subtries =
                              <<g_hash_table_insert(trie.subtries[1], tmpWord, subtrie2)>>]
        ELSE LET tmpWord == trie.value[1]
                 t1 == [trie EXCEPT !.value = NULL, !.subtries = <<EmptyTable>>]
                 t2 == enchant_trie_insert(t1, tmpWord)
             IN  enchant_trie_insert(t2, word)

\* lines 771-787: a node left with one child that has a value takes it over
enchant_trie_remove_collapse(trie) ==
    IF g_hash_table_size(trie.subtries[1]) = 1
    THEN LET key == CHOOSE k \in DOMAIN trie.subtries[1] : TRUE
             subtrie == trie.subtries[1][key]
         IN  IF subtrie.value # NULL
             THEN [trie EXCEPT !.value = <<key \o subtrie.value[1]>>,
                               !.subtries = NULL]
             ELSE trie
    ELSE trie

RECURSIVE enchant_trie_remove(_, _)
\* the node as enchant_trie_remove leaves it (the C code changes it in place)
enchant_trie_remove(trie, word) ==
    IF trie = NullTrie THEN trie
    ELSE IF trie.value = NULL
    THEN IF trie.subtries # NULL
         THEN LET t1 ==
                    IF word = <<>>
                    THEN [trie EXCEPT !.subtries =
                            <<g_hash_table_remove(trie.subtries[1], <<>>)>>]
                    ELSE LET tmpWord == <<Head(word)>>
                             subtrie == g_hash_table_lookup(trie.subtries[1], tmpWord)
                             subtrie2 == enchant_trie_remove(subtrie, Tail(word))
                         IN  IF subtrie = NullTrie THEN trie
                             ELSE IF subtrie2.subtries = NULL /\ subtrie2.value = NULL
                             THEN [trie EXCEPT !.subtries =
                                     <<g_hash_table_remove(trie.subtries[1], tmpWord)>>]
                             ELSE [trie EXCEPT !.subtries =
                                     <<g_hash_table_insert(trie.subtries[1], tmpWord, subtrie2)>>]
              IN  enchant_trie_remove_collapse(t1)
         ELSE trie
    ELSE IF trie.value[1] = word
         THEN [trie EXCEPT !.value = NULL]
         ELSE trie

RECURSIVE enchant_trie_remove_faults(_, _)
\* line 763 reads subtrie->subtries although the lookup of line 760 gave NULL
enchant_trie_remove_faults(trie, word) ==
    /\ trie # NullTrie
    /\ trie.value = NULL
    /\ trie.subtries # NULL
    /\ word # <<>>
    /\ LET subtrie == g_hash_table_lookup(trie.subtries[1], <<Head(word)>>)
       IN  \/ subtrie = NullTrie
           \/ enchant_trie_remove_faults(subtrie, Tail(word))

(***************************************************************************)
(* EnchantTrieMatcher.  word_pos counts the scalars consumed; the C buffer *)
(* of word is zero-filled behind the string (line 966), so that a read at  *)
(* or behind the end gives NUL and the string that starts there is "".     *)
(* order is the order in which g_hash_table_foreach visits keys, calls the *)
(* record of the callback invocations <<match, num_errors>>.               *)
(***************************************************************************)
ENCHANT_PWL_MAX_ERRORS == 3

ENCHANT_PWL_MAX_SUGGS == 15

\* &matcher->word[pos] as a string
WordFrom(word, pos) == IF pos >= Len(word) THEN <<>> ELSE SubSeq(word, pos + 1, Len(word))

\* the string of the scalar at pos: g_strndup(&word[pos], nxtChI - pos)
NxtChS(word, pos) == IF pos >= Len(word) THEN <<>> ELSE <<word[pos + 1]>>

enchant_trie_matcher_init(word, maxerrs, mode, cbfunc, order) ==
    LET normalized_word == g_utf8_normalize(word)
        pattern == IF mode = "case_insensitive"
                   THEN g_utf8_strdown(normalized_word)
                   ELSE normalized_word
    IN  [num_errors |-> 0, max_errors |-> maxerrs,
         word |-> pattern, word_pos |-> 0,
         path |-> <<>>, mode |-> mode, cbfunc |-> cbfunc,
         cbdata |-> [count |-> 0, suggs |-> <<>>, sugg_errs |-> <<>>],
         order |-> order, calls |-> <<>>]

enchant_trie_matcher_pushpath(matcher, newchars) ==
    [matcher EXCEPT !.path = matcher.path \o newchars]

enchant_trie_matcher_poppath(matcher, num) ==
    [matcher EXCEPT !.path =
        IF Len(matcher.path) - num < 0 THEN <<>>
        ELSE SubSeq(matcher.path, 1, Len(matcher.path) - num)]

enchant_pwl_check_cb(match, matcher) ==
    [matcher EXCEPT !.cbdata.count = matcher.cbdata.count + 1]

\* the loop of lines 651-661: <<loc, TRUE iff the loop returned>>
RECURSIVE suggest_cb_loc(_, _, _, _)
suggest_cb_loc(suggs, sugg_errs, match, num_errors) ==
    IF suggs = <<>> THEN <<0, FALSE>>
    ELSE IF Head(sugg_errs) > num_errors THEN <<0, FALSE>>
    ELSE IF match = Head(suggs) THEN <<0, TRUE>>
    ELSE LET r == suggest_cb_loc(Tail(suggs), Tail(sugg_errs), match, num_errors)
         IN  <<r[1] + 1, r[2]>>

\* enchant_pwl_suggest_cb without lines 663-667: a match that does not fit
\* is stored all the same
enchant_pwl_suggest_cb_NoCap(match, matcher0) ==
    LET matcher1 == IF matcher0.num_errors < matcher0.max_errors
                    THEN [matcher0 EXCEPT !.max_errors = matcher0.num_errors]
                    ELSE matcher0
        sugg_list == matcher1.cbdata
        r == suggest_cb_loc(sugg_list.suggs, sugg_list.sugg_errs, match,
                            matcher1.num_errors)
    IN  IF r[2] THEN matcher1
        ELSE [matcher1 EXCEPT
                !.cbdata.suggs = SubSeq(sugg_list.suggs, 1, r[1]) \o <<match>>,
                !.cbdata.sugg_errs = SubSeq(sugg_list.sugg_errs, 1, r[1])
                                        \o <<matcher1.num_errors>>]

enchant_pwl_suggest_cb(match, matcher0) ==
    LET matcher == IF matcher0.num_errors < matcher0.max_errors
                   THEN [matcher0 EXCEPT !.max_errors = matcher0.num_errors]
                   ELSE matcher0
        sugg_list == matcher.cbdata
        r == suggest_cb_loc(sugg_list.suggs, sugg_list.sugg_errs, match,
                            matcher.num_errors)
        loc == r[1]
    IN  IF r[2] THEN matcher
        ELSE IF loc >= ENCHANT_PWL_MAX_SUGGS THEN matcher
        ELSE [matcher EXCEPT
                !.cbdata.suggs = SubSeq(sugg_list.suggs, 1, loc) \o <<match>>,
                !.cbdata.sugg_errs = SubSeq(sugg_list.sugg_errs, 1, loc)
                                        \o <<matcher.num_errors>>]

\* matcher->cbfunc(match, matcher)
cbfunc(match, matcher) ==
    LET m == [matcher EXCEPT !.calls = Append(matcher.calls, <<match, matcher.num_errors>>)]
    IN  IF m.cbfunc = "enchant_pwl_suggest_cb"
        THEN enchant_pwl_suggest_cb(match, m)
        ELSE enchant_pwl_check_cb(match, m)

\* <<subtrie, *nxtChS after the call>>
enchant_trie_get_subtrie(trie, matcher, nxtChS) ==
    IF trie.subtries = NULL THEN <<NullTrie, nxtChS>>
    ELSE LET subtrie == g_hash_table_lookup(trie.subtries[1], nxtChS)
         IN  IF subtrie = NullTrie /\ matcher.mode = "case_insensitive"
             THEN LET nxtChSUp == g_utf8_strup(nxtChS)
                  IN  <<g_hash_table_lookup(trie.subtries[1], nxtChSUp), nxtChSUp>>
             ELSE <<subtrie, nxtChS>>

RECURSIVE enchant_trie_find_matches(_, _)
RECURSIVE enchant_trie_find_matches_cb(_, _, _)
RECURSIVE g_hash_table_foreach(_, _, _)

\* g_hash_table_foreach(table, enchant_trie_find_matches_cb, matcher) over
\* the keys that are left to visit
g_hash_table_foreach(keys, table, matcher) ==
    IF keys = <<>> THEN matcher
    ELSE LET m == IF Head(keys) \in DOMAIN table
                  THEN enchant_trie_find_matches_cb(Head(keys), table[Head(keys)], matcher)
                  ELSE matcher
         IN  g_hash_table_foreach(Tail(keys), table, m)

enchant_trie_find_matches(trie, matcher) ==
    IF trie = NullTrie THEN matcher
    ELSE IF matcher.num_errors > matcher.max_errors THEN matcher
    ELSE IF trie = EOSTrie
    THEN LET errs == matcher.num_errors
             m1 == IF matcher.word_pos < Len(matcher.word)
                   THEN [matcher EXCEPT !.num_errors =
                           errs + strlen(WordFrom(matcher.word, matcher.word_pos))]
                   ELSE matcher
             m2 == IF m1.num_errors <= m1.max_errors
                   THEN cbfunc(matcher.path, m1)
                   ELSE m1
         IN  [m2 EXCEPT !.num_errors = errs]
    ELSE IF trie.value # NULL
    THEN LET errs == matcher.num_errors
             value == IF matcher.mode = "case_insensitive"
                      THEN g_utf8_strdown(trie.value[1])
                      ELSE trie.value[1]
             m1 == [matcher EXCEPT !.num_errors =
                      errs + edit_dist(value, WordFrom(matcher.word, matcher.word_pos))]
             m2 == IF m1.num_errors <= m1.max_errors
                   THEN cbfunc(matcher.path \o trie.value[1], m1)
                   ELSE m1
         IN  [m2 EXCEPT !.num_errors = errs]
    ELSE LET oldPos == matcher.word_pos
             nxtChI == matcher.word_pos + 1
             g == enchant_trie_get_subtrie(trie, matcher,
                                           NxtChS(matcher.word, matcher.word_pos))
             subtrie == g[1]
             nxtChS == g[2]
             \* precisely match the first character, and recurse
             m1 == IF subtrie # NullTrie
                   THEN LET p == enchant_trie_matcher_pushpath(matcher, nxtChS)
                            r == enchant_trie_find_matches(subtrie,
                                    [p EXCEPT !.word_pos = nxtChI])
                        IN  enchant_trie_matcher_poppath(
                                [r EXCEPT !.word_pos = oldPos], Len(nxtChS))
                   ELSE matcher
             m2 == [m1 EXCEPT !.num_errors = m1.num_errors + 1]
             \* match on inserting word[0]
             m3 == IF oldPos < Len(matcher.word)
                   THEN [enchant_trie_find_matches(trie, [m2 EXCEPT !.word_pos = nxtChI])
                            EXCEPT !.word_pos = oldPos]
                   ELSE m2
             m4 == IF trie.subtries = NULL THEN m3
                   ELSE g_hash_table_foreach(m3.order, trie.subtries[1], m3)
         IN  [m4 EXCEPT !.num_errors = m4.num_errors - 1]

enchant_trie_find_matches_cb(key, subtrie, matcher) ==
    LET oldPos == matcher.word_pos
        nxtChI == matcher.word_pos + 1
    IN  \* don't handle actual matches, that's already done
        IF key = NxtChS(matcher.word, oldPos) THEN matcher
        ELSE LET p == enchant_trie_matcher_pushpath(matcher, key)
                 \* match on deleting word[0]
                 m1 == enchant_trie_find_matches(subtrie, p)
                 \* match on substituting word[0]
                 m2 == enchant_trie_find_matches(subtrie, [m1 EXCEPT !.word_pos = nxtChI])
                 m3 == enchant_trie_matcher_poppath(m2, Len(key))
                 \* match on transposing word[0] and word[1]
                 g == enchant_trie_get_subtrie(subtrie, m3, NxtChS(matcher.word, oldPos))
                 subtrie2 == g[1]
                 key2 == g[2]
                 m4 == IF subtrie2 # NullTrie /\ key = NxtChS(matcher.word, m3.word_pos)
                       THEN LET q == enchant_trie_matcher_pushpath(
                                        enchant_trie_matcher_pushpath(
                                            [m3 EXCEPT !.word_pos = m3.word_pos + 1], key),
                                        key2)
                                r == enchant_trie_find_matches(subtrie2, q)
                            IN  enchant_trie_matcher_poppath(
                                    enchant_trie_matcher_poppath(r, Len(key2)), Len(key))
                       ELSE m3
             IN  [m4 EXCEPT !.word_pos = oldPos]

(***************************************************************************)
(* The PWL facade.  The PWL is the one enchant_pwl_init() returns: its     *)
(* filename is NULL, so that enchant_pwl_refresh_from_file returns at      *)
(* line 227 and the file parts of add and remove are skipped.              *)
(***************************************************************************)
\* a search that tolerates one error
enchant_pwl_contains_OneError(pwl_trie, word, order) ==
    LET matcher == enchant_trie_matcher_init(word, 1, "case_sensitive",
                                             "enchant_pwl_check_cb", order)
    IN  enchant_trie_find_matches(pwl_trie, matcher).cbdata.count # 0

enchant_pwl_contains(pwl_trie, word, order) ==
    LET matcher == enchant_trie_matcher_init(word, 0, "case_sensitive",
                                             "enchant_pwl_check_cb", order)
    IN  enchant_trie_find_matches(pwl_trie, matcher).cbdata.count # 0

enchant_is_all_caps(word) ==
    /\ \E i \in 1..Len(word) : g_unichar_type(word[i]) = "UPPERCASE_LETTER"
    /\ \A i \in 1..Len(word) :
          g_unichar_type(word[i]) \notin {"TITLECASE_LETTER", "LOWERCASE_LETTER"}

enchant_is_title_case(word) ==
    /\ g_unichar_type(word[1]) \in {"UPPERCASE_LETTER", "TITLECASE_LETTER"}
    /\ word[1] = g_unichar_totitle(word[1])
    /\ \A i \in 2..Len(word) :
          g_unichar_type(word[i]) \notin {"UPPERCASE_LETTER", "TITLECASE_LETTER"}

enchant_utf8_strtitle(str) ==
    LET upperStr == g_utf8_strup(str)
        lowerTail == g_utf8_strdown(Tail(upperStr))
    IN  <<g_unichar_totitle(Head(upperStr))>> \o lowerTail

\* a check that does not try the title-cased form of an all-caps word
enchant_pwl_check_NoTitle(pwl_trie, word, order) ==
    IF enchant_pwl_contains(pwl_trie, word, order) THEN 0
    ELSE IF (enchant_is_title_case(word) \/ enchant_is_all_caps(word))
            /\ enchant_pwl_contains(pwl_trie, g_utf8_strdown(word), order)
    THEN 0
    ELSE 1

\* 0: found, 1: not found
enchant_pwl_check(pwl_trie, word, order) ==
    IF enchant_pwl_contains(pwl_trie, word, order) THEN 0
    ELSE LET isTitle == enchant_is_title_case(word)
             isAllCaps == ~isTitle /\ enchant_is_all_caps(word)
         IN  IF isTitle \/ isAllCaps
             THEN IF enchant_pwl_contains(pwl_trie, g_utf8_strdown(word), order) THEN 0
                  ELSE IF isAllCaps
                          /\ enchant_pwl_contains(pwl_trie, enchant_utf8_strtitle(word), order)
                       THEN 0
                       ELSE 1
             ELSE 1

\* an add that stores the word in the trie as it is given
enchant_pwl_add_to_trie_Raw(pwl_trie, pwl_words, word) ==
    LET normalized_word == g_utf8_normalize(word)
    IN  IF normalized_word \in DOMAIN pwl_words
        THEN <<pwl_trie, pwl_words>>
        ELSE <<enchant_trie_insert(pwl_trie, word),
               [k \in DOMAIN pwl_words \cup {normalized_word} |->
                   IF k = normalized_word THEN word ELSE pwl_words[k]]>>

\* the pair <<trie, words_in_trie>> after the call
enchant_pwl_add_to_trie(pwl_trie, pwl_words, word) ==
    LET normalized_word == g_utf8_normalize(word)
    IN  IF normalized_word \in DOMAIN pwl_words
        THEN <<pwl_trie, pwl_words>>
        ELSE <<enchant_trie_insert(pwl_trie, normalized_word),
               [k \in DOMAIN pwl_words \cup {normalized_word} |->
                   IF k = normalized_word THEN word ELSE pwl_words[k]]>>

\* a remove that takes the key out of words_in_trie and leaves the trie
enchant_pwl_remove_from_trie_KeyOnly(pwl_trie, pwl_words, word) ==
    <<pwl_trie, [k \in DOMAIN pwl_words \ {g_utf8_normalize(word)} |-> pwl_words[k]]>>

enchant_pwl_remove_from_trie(pwl_trie, pwl_words, word) ==
    LET normalized_word == g_utf8_normalize(word)
    IN  IF normalized_word \in DOMAIN pwl_words
        THEN LET t == enchant_trie_remove(pwl_trie, normalized_word)
             IN  <<IF t # NullTrie /\ t.subtries = NULL /\ t.value = NULL
                   THEN NullTrie ELSE t,
                   [k \in DOMAIN pwl_words \ {normalized_word} |-> pwl_words[k]]>>
        ELSE <<pwl_trie, pwl_words>>

RECURSIVE best_distance_loop(_, _, _)
best_distance_loop(suggs, normalized_word, best_dist) ==
    IF suggs = <<>> THEN best_dist
    ELSE LET dist == edit_dist(normalized_word, g_utf8_normalize(Head(suggs)))
         IN  best_distance_loop(Tail(suggs), normalized_word, Min(dist, best_dist))

\* a best distance that does not start from the length of the word
best_distance_NoLength(suggs, word) ==
    best_distance_loop(suggs, g_utf8_normalize(word), ENCHANT_PWL_MAX_ERRORS)

best_distance(suggs, word) ==
    LET normalized_word == g_utf8_normalize(word)
    IN  best_distance_loop(suggs, normalized_word, Len(normalized_word))

\* a conversion that does not spare the stored forms that are all-caps
case_and_denormalize_Always(pwl_words, word, sugg) ==
    LET suggestion == pwl_words[sugg]
    IN  IF enchant_is_title_case(word) THEN enchant_utf8_strtitle(suggestion)
        ELSE IF enchant_is_all_caps(word) THEN g_utf8_strup(suggestion)
        ELSE suggestion

\* one suggestion of the loop of lines 575-588
case_and_denormalize(pwl_words, word, sugg) ==
    LET suggestion == pwl_words[sugg]
    IN  IF enchant_is_title_case(word) /\ ~enchant_is_all_caps(suggestion)
        THEN enchant_utf8_strtitle(suggestion)
        ELSE IF ~enchant_is_title_case(word) /\ enchant_is_all_caps(word)
                /\ ~enchant_is_all_caps(suggestion)
        THEN g_utf8_strup(suggestion)
        ELSE suggestion

enchant_pwl_case_and_denormalize_suggestions(pwl_words, word, suggs) ==
    [i \in 1..Len(suggs) |-> case_and_denormalize(pwl_words, word, suggs[i])]

\* lines 613-614; suggs is a pointer to the list of the other providers'
\* suggestions
\* a budget that ignores the suggestions of the other providers
suggest_max_dist_Unbounded(suggs, word) == ENCHANT_PWL_MAX_ERRORS

suggest_max_dist(suggs, word) ==
    Min(IF suggs # NULL THEN best_distance(suggs[1], word) ELSE ENCHANT_PWL_MAX_ERRORS,
        ENCHANT_PWL_MAX_ERRORS)

\* lines 630-636, once the matcher has run: max_dist, the list before and
\* after line 634, the callback invocations, and whether line 578 called
\* strlen(NULL)
suggest_out(pwl_words, word, max_dist, m) ==
    LET sugg_list == m.cbdata.suggs
        faults == \E i \in 1..Len(sugg_list) : sugg_list[i] \notin DOMAIN pwl_words
    IN  [max_dist |-> max_dist, keys |-> sugg_list, calls |-> m.calls, fault |-> faults,
         list |-> IF faults THEN <<>>
                  ELSE enchant_pwl_case_and_denormalize_suggestions(pwl_words, word, sugg_list)]

enchant_pwl_suggest(pwl_trie, pwl_words, word, suggs, order) ==
    LET max_dist == suggest_max_dist(suggs, word)
        matcher == enchant_trie_matcher_init(word, max_dist, "case_insensitive",
                                             "enchant_pwl_suggest_cb", order)
    IN  suggest_out(pwl_words, word, max_dist, enchant_trie_find_matches(pwl_trie, matcher))

(***************************************************************************)
(* The backing file.  Its content is a sequence of characters: the scalars *)
(* of the words and "LF" (\n), "CR" (\r), "#" and "BOM" (U+FEFF).  The     *)
(* file is [contents, st_mtime]; st_mtime counts whole seconds, as time_t  *)
(* does.  The file exists once enchant_pwl_init_with_file has run, its     *)
(* lines are shorter than BUFSIZ and valid UTF-8, and stdio keeps what is  *)
(* written in its buffer until fclose.                                     *)
(***************************************************************************)
\* the first line fgets reads, with its "LF" if it has one
fgets(contents) ==
    IF \E i \in 1..Len(contents) : contents[i] = "LF"
    THEN SubSeq(contents, 1, CHOOSE i \in 1..Len(contents) :
                                /\ contents[i] = "LF"
                                /\ \A j \in 1..(i - 1) : contents[j] # "LF")
    ELSE contents

RECURSIVE g_strchomp(_)
\* the line without its trailing white space
g_strchomp(line) ==
    IF line # <<>> /\ line[Len(line)] \in {"LF", "CR"}
    THEN g_strchomp(SubSeq(line, 1, Len(line) - 1))
    ELSE line

RECURSIVE refresh_lines(_, _, _, _)
\* the loop of lines 244-269 over what is left to read of the file:
\* <<trie, words_in_trie>> when the end of the file is reached
refresh_lines(rest, line_number, pwl_trie, pwl_words) ==
    IF rest = <<>> THEN <<pwl_trie, pwl_words>>
    ELSE LET buffer == fgets(rest)
             line == g_strchomp(IF line_number = 1 /\ Head(buffer) = "BOM"
                                THEN Tail(buffer) ELSE buffer)
             r == IF line # <<>> /\ Head(line) # "#"
                  THEN enchant_pwl_add_to_trie(pwl_trie, pwl_words, line)
                  ELSE <<pwl_trie, pwl_words>>
         IN  refresh_lines(SubSeq(rest, Len(buffer) + 1, Len(rest)), line_number + 1,
                           r[1], r[2])

\* enchant_pwl_refresh_from_file without lines 229-232: the lines of the file
\* are added to the trie the PWL has
enchant_pwl_refresh_from_file_Merge(pwl_trie, pwl_words, pwl_filename, pwl_file_changed, f) ==
    IF pwl_filename = NULL \/ pwl_file_changed = f.st_mtime
    THEN [trie |-> pwl_trie, words_in_trie |-> pwl_words,
          file_changed |-> pwl_file_changed, read |-> FALSE]
    ELSE LET r == refresh_lines(f.contents, 1, pwl_trie, pwl_words)
         IN  [trie |-> r[1], words_in_trie |-> r[2],
              file_changed |-> f.st_mtime, read |-> TRUE]

\* the fields of the PWL after the call, and whether it has read the file
enchant_pwl_refresh_from_file(pwl_trie, pwl_words, pwl_filename, pwl_file_changed, f) ==
    IF pwl_filename = NULL \/ pwl_file_changed = f.st_mtime
    THEN [trie |-> pwl_trie, words_in_trie |-> pwl_words,
          file_changed |-> pwl_file_changed, read |-> FALSE]
    ELSE LET r == refresh_lines(f.contents, 1, NullTrie, EmptyTable)
         IN  [trie |-> r[1], words_in_trie |-> r[2],
              file_changed |-> f.st_mtime, read |-> TRUE]

\* lines 335-347 of enchant_pwl_add: what the file holds after fclose
add_contents(contents, word) ==
    (IF contents # <<>> /\ contents[Len(contents)] # "LF"
     THEN contents \o <<"LF">> ELSE contents) \o word \o <<"LF">>

\* strstr(&contents[searchstart], key): the position of the first occurrence
\* of key at or behind searchstart (positions count from 0), or -1
strstr(contents, searchstart, key) ==
    LET found == {i \in searchstart..(Len(contents) - Len(key)) :
                     SubSeq(contents, i + 1, i + Len(key)) = key}
    IN  IF found = {} THEN -1
        ELSE CHOOSE i \in found : \A j \in found : i <= j

\* lines 405-406 left out: nothing behind the word is skipped
remove_skip_None(contents, searchstart) == searchstart

RECURSIVE remove_skip(_, _)
\* the loop of lines 405-406
remove_skip(contents, searchstart) ==
    IF searchstart < Len(contents) /\ contents[searchstart + 1] \in {"LF", "CR"}
    THEN remove_skip(contents, searchstart + 1)
    ELSE searchstart

RECURSIVE remove_loop(_, _, _, _)
\* the loop of lines 388-413: what it writes
remove_loop(contents, filestart, searchstart, key) ==
    LET needle == strstr(contents, searchstart, key)
        foundend == needle + Len(key)
    IN  IF needle = -1
        THEN SubSeq(contents, searchstart + 1, Len(contents))
        ELSE IF /\ (needle = filestart \/ contents[needle] \in {"LF", "CR"})
                /\ (foundend = Len(contents) \/ contents[foundend + 1] \in {"LF", "CR"})
        THEN SubSeq(contents, searchstart + 1, needle)
                 \o remove_loop(contents, filestart, remove_skip(contents, foundend), key)
        ELSE SubSeq(contents, searchstart + 1, needle + 1)
                 \o remove_loop(contents, filestart, needle + 1, key)

\* lines 376-413 of enchant_pwl_remove: what the file holds after fclose
remove_contents(contents, word) ==
    IF contents # <<>> /\ Head(contents) = "BOM"
    THEN <<"BOM">> \o remove_loop(contents, 1, 1, word)
    ELSE remove_loop(contents, 0, 0, word)

(***************************************************************************)
(* The state machine.                                                      *)
(*   trie, words_in_trie   the fields of EnchantPWL                        *)
(*   fault                 the process has dereferenced NULL               *)
(*   hist                  the words added and not removed since, and for  *)
(*                         each NFD form the word that was added first     *)
(*   call                  the last call and what it returned; acted: the  *)
(*                         call went through (a remove: it has called      *)
(*                         enchant_trie_remove)                            *)
(*   snap                  the PWL before the last add (SpecRoundTrip)     *)
(*   filename, file_changed  the fields of EnchantPWL                      *)
(*   file, clock           the backing file and the time, in seconds       *)
(*   io                    the last call of a file-backed PWL: whether it  *)
(*                         read and wrote the file, whether another        *)
(*                         process wrote the file since the call before    *)
(*                         (ext; pending: since this call), the call       *)
(*                         before (prev), file_changed when it was made    *)
(*                         (last_mtime), and the PWL and the file before   *)
(*                         a call that wrote (before)                      *)
(*   matcher               the EnchantTrieMatcher of a suggest whose       *)
(*                         callbacks are taken one by one (SpecSuggestCb)  *)
(***************************************************************************)
VARIABLES trie, words_in_trie, filename, file_changed, fault, hist, call, snap,
          file, clock, io, matcher

vars == <<trie, words_in_trie, filename, file_changed, fault, hist, call, snap,
          file, clock, io, matcher>>

\* bound on the number of words a PWL holds at a time
MaxWords == 3

\* bound on the length of the strings given to edit_dist
MaxDistLen == 3

\* bound on the number of characters of the backing file
MaxFileLen == 6

\* bound on the clock, in seconds
MaxClock == 2

\* the words the callers add and remove
AddWords == {<<"a">>, <<"a", "b">>, <<"b", "a">>, <<"A", "b">>, <<"A", "B">>,
             <<"a'">>, <<"a", "'">>, <<"dz">>}

\* the words the callers check and ask suggestions for
QueryWords == AddWords \cup {<<"b">>, <<"A">>, <<"a", "B">>, <<"A'">>, <<"B", "A">>,
                             <<"Dz">>, <<"DZ">>}

\* the lists of suggestions of the other providers
BaselineSuggs == {NULL, << <<>> >>, << << <<"a", "b">> >> >>,
                  << << <<"a">>, <<"b", "a", "b">> >> >>}

\* the orders in which g_hash_table_foreach may visit the keys of a table
KeyOrders == {<< <<>>, <<"a">>, <<"b">>, <<"A">>, <<"B">>, <<"'">>, <<"dz">> >>,
              << <<"dz">>, <<"'">>, <<"B">>, <<"A">>, <<"b">>, <<"a">>, <<>> >>}

\* bound on the number of different strings the matcher offers to the
\* callback of one suggest
MaxMatches == 17

\* the strings the matcher offers: one scalar each, the n-th of an alphabet
MatchStrings == {<<n>> : n \in 1..MaxMatches}

\* the words the callers of a file-backed PWL add, remove and check
FileWords == {<<"a">>, <<"a", "b">>, <<"A">>}

\* words of a file-backed PWL that have the same NFD form, and one that has
\* another
FileNfdWords == {<<"a">>, <<"a'">>, <<"a", "'">>}

\* what the backing file holds when the PWL is created, and what another
\* writer leaves in it
FileContents ==
    { <<>>,
      <<"a", "LF">>,
      <<"a", "b", "LF", "a", "LF">>,
      <<"a", "LF", "LF", "b", "a">>,
      <<"#", "a", "LF", "A", "LF">>,
      <<"b", "a", "CR", "LF", "a", "CR">>,
      <<"BOM", "a", "LF", "a", "b">> }

NoCall == [op |-> "none", word |-> <<>>, word2 |-> <<>>, suggs |-> NULL,
           maxerrs |-> 0, mode |-> "case_sensitive", acted |-> FALSE,
           ret |-> 0, list |-> <<>>, keys |-> <<>>, calls |-> <<>>]

NoSnap == [taken |-> FALSE, word |-> <<>>, trie |-> NullTrie, words |-> EmptyTable]

\* the file of a PWL that has none
NoFile == [contents |-> <<>>, st_mtime |-> 0]

\* io of a PWL without file, and of a file-backed PWL before its first call
NoIO == [op |-> "none", word |-> <<>>, read |-> FALSE, wrote |-> FALSE,
         pending |-> FALSE, ext |-> FALSE, twice |-> FALSE, prev |-> "none",
         last_mtime |-> 0,
         before |-> [trie |-> NullTrie, words_in_trie |-> EmptyTable,
                     contents |-> <<>>]]

\* the matcher while no suggest is under way
NoMatcher == enchant_trie_matcher_init(<<>>, 0, "case_sensitive", "enchant_pwl_check_cb", <<>>)

\* enchant_pwl_init
Init ==
    /\ trie = NullTrie
    /\ words_in_trie = EmptyTable
    /\ filename = NULL
    /\ file_changed = 0
    /\ fault = FALSE
    /\ hist = [W |-> {}, first |-> EmptyTable]
    /\ call = NoCall
    /\ snap = NoSnap
    /\ file = NoFile
    /\ clock = 0
    /\ io = NoIO
    /\ matcher = NoMatcher

\* hist h after the word is added
HistAdd(h, word) ==
    LET k == g_utf8_normalize(word)
    IN  [W |-> h.W \cup {word},
         first |-> IF k \in DOMAIN h.first THEN h.first
                   ELSE [x \in DOMAIN h.first \cup {k} |->
                            IF x = k THEN word ELSE h.first[x]]]

\* hist h after the word, in any of its normalization-equivalent forms, is removed
HistRemove(h, word) ==
    LET k == g_utf8_normalize(word)
    IN  [W |-> {w \in h.W : g_utf8_normalize(w) # k},
         first |-> [x \in DOMAIN h.first \ {k} |-> h.first[x]]]

RECURSIVE HistOfFile(_, _, _)
\* hist of a PWL that has read the file: every line that is a word is added
HistOfFile(rest, first_line, h) ==
    IF rest = <<>> THEN h
    ELSE LET ends == {i \in 1..Len(rest) : rest[i] = "LF"} \cup {Len(rest) + 1}
             end == CHOOSE i \in ends : \A j \in ends : i <= j
             raw == SubSeq(rest, 1, end - 1)
             text == IF first_line /\ raw # <<>> /\ Head(raw) = "BOM" THEN Tail(raw) ELSE raw
             blanks == {n \in 0..Len(text) :
                          \A i \in (Len(text) - n + 1)..Len(text) : text[i] = "CR"}
             line == SubSeq(text, 1, Len(text) - (CHOOSE n \in blanks :
                                                    \A m \in blanks : m <= n))
         IN  HistOfFile(SubSeq(rest, end + 1, Len(rest)), FALSE,
                        IF line # <<>> /\ Head(line) # "#" THEN HistAdd(h, line) ELSE h)

\* enchant_pwl_init_with_file: the file exists or is created, and is read
InitFile ==
    /\ filename = <<"pwl">>
    /\ clock = 1
    /\ \E c \in FileContents :
          /\ file = [contents |-> c, st_mtime |-> 1]
          /\ LET p == enchant_pwl_refresh_from_file(NullTrie, EmptyTable, <<"pwl">>, 0,
                                                    [contents |-> c, st_mtime |-> 1])
             IN  /\ trie = p.trie
                 /\ words_in_trie = p.words_in_trie
                 /\ file_changed = p.file_changed
          /\ hist = HistOfFile(c, TRUE, [W |-> {}, first |-> EmptyTable])
    /\ fault = FALSE
    /\ call = NoCall
    /\ snap = NoSnap
    /\ io = NoIO
    /\ matcher = NoMatcher

\* io after a call of a file-backed PWL
IoOf(op, word, read, wrote) ==
    IF filename = NULL THEN NoIO
    ELSE [op |-> op, word |-> word, read |-> read, wrote |-> wrote,
          pending |-> FALSE, ext |-> io.pending,
          twice |-> op = "add" /\ io.op = "add" /\ io.word = word /\ ~io.pending,
          prev |-> io.op, last_mtime |-> file_changed,
          before |-> IF wrote
                     THEN [trie |-> trie, words_in_trie |-> words_in_trie,
                           contents |-> file.contents]
                     ELSE NoIO.before]

\* enchant_pwl_add
Add(word, snapshot) ==
    /\ ~fault
    /\ LET p == enchant_pwl_refresh_from_file(trie, words_in_trie, filename,
                                              file_changed, file)
           h == IF p.read
                THEN HistOfFile(file.contents, TRUE, [W |-> {}, first |-> EmptyTable])
                ELSE hist
           r == enchant_pwl_add_to_trie(p.trie, p.words_in_trie, word)
       IN  /\ Cardinality(h.W \cup {word}) <= MaxWords
           /\ trie' = r[1]
           /\ words_in_trie' = r[2]
           /\ hist' = HistAdd(h, word)
           /\ io' = IoOf("add", word, p.read, TRUE)
           /\ IF filename # NULL
              THEN \* line 333 is reached before anything is written
                   /\ Len(add_contents(file.contents, word)) <= MaxFileLen
                   /\ file_changed' = file.st_mtime
                   /\ file' = [contents |-> add_contents(file.contents, word),
                               st_mtime |-> clock]
              ELSE /\ file_changed' = p.file_changed
                   /\ UNCHANGED file
    /\ call' = [NoCall EXCEPT !.op = "add", !.acted = TRUE]
    /\ snap' = IF snapshot
               THEN [taken |-> TRUE, word |-> word, trie |-> trie, words |-> words_in_trie]
               ELSE NoSnap
    /\ UNCHANGED <<filename, fault, clock, matcher>>

\* lines 364-425 of enchant_pwl_remove: fopen truncates the file, line 418
\* reads its st_mtime, fclose writes the new content, in this second or in
\* the next
RemoveFile(word) ==
    IF filename # NULL
    THEN LET contents == remove_contents(file.contents, word)
         IN  \E d \in (IF contents = <<>> \/ clock = MaxClock THEN {0} ELSE {0, 1}) :
                /\ file_changed' = clock
                /\ file' = [contents |-> contents, st_mtime |-> clock + d]
                /\ clock' = clock + d
    ELSE UNCHANGED <<file_changed, file, clock>>

\* enchant_pwl_remove
Remove(word, order, snapshot) ==
    /\ ~fault
    /\ LET p == enchant_pwl_refresh_from_file(trie, words_in_trie, filename,
                                              file_changed, file)
           h == IF p.read
                THEN HistOfFile(file.contents, TRUE, [W |-> {}, first |-> EmptyTable])
                ELSE hist
       IN  IF enchant_pwl_check(p.trie, word, order) = 1
           THEN /\ trie' = p.trie
                /\ words_in_trie' = p.words_in_trie
                /\ file_changed' = p.file_changed
                /\ hist' = h
                /\ io' = IoOf("remove", word, p.read, FALSE)
                /\ UNCHANGED <<fault, file, clock>>
                /\ call' = [NoCall EXCEPT !.op = "remove", !.acted = FALSE]
           ELSE LET r == enchant_pwl_remove_from_trie(p.trie, p.words_in_trie, word)
                    normalized_word == g_utf8_normalize(word)
                IN  IF normalized_word \in DOMAIN p.words_in_trie
                       /\ enchant_trie_remove_faults(p.trie, normalized_word)
                    THEN /\ fault' = TRUE
                         /\ call' = [NoCall EXCEPT !.op = "remove", !.acted = FALSE]
                         /\ trie' = p.trie
                         /\ words_in_trie' = p.words_in_trie
                         /\ file_changed' = p.file_changed
                         /\ hist' = h
                         /\ io' = IoOf("remove", word, p.read, FALSE)
                         /\ UNCHANGED <<file, clock>>
                    ELSE /\ trie' = r[1]
                         /\ words_in_trie' = r[2]
                         /\ hist' = HistRemove(h, word)
                         /\ call' = [NoCall EXCEPT !.op = "remove",
                                        !.acted = normalized_word \in DOMAIN p.words_in_trie]
                         /\ io' = IoOf("remove", word, p.read, TRUE)
                         /\ RemoveFile(word)
                         /\ UNCHANGED fault
    /\ snap' = IF snapshot /\ snap.taken /\ call.op = "add" /\ snap.word = word
               THEN snap ELSE NoSnap
    /\ UNCHANGED <<filename, matcher>>

\* A query leaves the PWL as it is, or as the file has it: what it returns
\* after another query is what it returns as the first query after the last
\* add, remove or write of the file.  The queries are therefore taken in the
\* states that Init, add, remove and a write of the file leave.
Mutated == call.op \in {"none", "add", "remove", "write"}

\* enchant_pwl_check
Check(word, order) ==
    /\ ~fault
    /\ Mutated
    /\ LET p == enchant_pwl_refresh_from_file(trie, words_in_trie, filename,
                                              file_changed, file)
       IN  /\ trie' = p.trie
           /\ words_in_trie' = p.words_in_trie
           /\ file_changed' = p.file_changed
           /\ hist' = IF p.read
                      THEN HistOfFile(file.contents, TRUE, [W |-> {}, first |-> EmptyTable])
                      ELSE hist
           /\ io' = IoOf("check", word, p.read, FALSE)
           /\ call' = [NoCall EXCEPT !.op = "check", !.word = word, !.acted = TRUE,
                                     !.ret = enchant_pwl_check(p.trie, word, order)]
    /\ snap' = NoSnap
    /\ UNCHANGED <<filename, fault, file, clock, matcher>>

\* enchant_pwl_suggest
Suggest(word, suggs, order) ==
    /\ ~fault
    /\ Mutated
    /\ LET p == enchant_pwl_refresh_from_file(trie, words_in_trie, filename,
                                              file_changed, file)
       IN  /\ trie' = p.trie
           /\ words_in_trie' = p.words_in_trie
           /\ file_changed' = p.file_changed
           /\ hist' = IF p.read
                      THEN HistOfFile(file.contents, TRUE, [W |-> {}, first |-> EmptyTable])
                      ELSE hist
           /\ io' = IoOf("suggest", word, p.read, FALSE)
           /\ LET r == enchant_pwl_suggest(p.trie, p.words_in_trie, word, suggs, order)
              IN  /\ fault' = r.fault
                  /\ call' = [NoCall EXCEPT !.op = "suggest", !.word = word,
                                 !.suggs = suggs,
                                 !.acted = ~r.fault, !.maxerrs = r.max_dist, !.list = r.list,
                                 !.keys = r.keys, !.calls = r.calls,
                                 !.mode = "case_insensitive"]
    /\ snap' = NoSnap
    /\ UNCHANGED <<filename, file, clock, matcher>>

\* one run of the matcher over the trie of the PWL, with the callback of check
FindMatches(word, maxerrs, mode, order) ==
    /\ ~fault
    /\ Mutated
    /\ LET m == enchant_trie_find_matches(trie,
                    enchant_trie_matcher_init(word, maxerrs, mode,
                                              "enchant_pwl_check_cb", order))
       IN  call' = [NoCall EXCEPT !.op = "find_matches", !.word = word, !.acted = TRUE,
                       !.maxerrs = maxerrs, !.mode = mode, !.calls = m.calls,
                       !.ret = m.cbdata.count]
    /\ snap' = NoSnap
    /\ UNCHANGED <<trie, words_in_trie, filename, file_changed, fault, hist, file,
                   clock, io, matcher>>

\* another process writes the file
ExternalWrite(contents) ==
    /\ ~fault
    /\ filename # NULL
    /\ contents # file.contents
    /\ file' = [contents |-> contents, st_mtime |-> clock]
    /\ call' = [NoCall EXCEPT !.op = "write"]
    /\ io' = [io EXCEPT !.pending = TRUE]
    /\ snap' = NoSnap
    /\ UNCHANGED <<trie, words_in_trie, filename, file_changed, fault, hist, clock,
                   matcher>>

\* a second passes
Tick ==
    /\ filename # NULL
    /\ clock < MaxClock
    /\ clock' = clock + 1
    /\ UNCHANGED <<trie, words_in_trie, filename, file_changed, fault, hist, call, snap,
                   file, io, matcher>>

RECURSIVE Strings(_, _)
\* the strings over the alphabet of at most n scalars
Strings(alphabet, n) ==
    IF n = 0 THEN {<<>>}
    ELSE LET S == Strings(alphabet, n - 1)
         IN  S \cup {Append(s, c) : s \in S, c \in alphabet}

DistStrings == Strings({"a", "b", "c"}, MaxDistLen)

\* the two strings are drawn, edit_dist is not called yet
InitDist ==
    /\ trie = NullTrie
    /\ words_in_trie = EmptyTable
    /\ fault = FALSE
    /\ hist = [W |-> {}, first |-> EmptyTable]
    /\ \E w1 \in DistStrings, w2 \in DistStrings :
          call = [NoCall EXCEPT !.op = "edit_dist", !.word = w1, !.word2 = w2]
    /\ snap = NoSnap
    /\ filename = NULL
    /\ file_changed = 0
    /\ file = NoFile
    /\ clock = 0
    /\ io = NoIO
    /\ matcher = NoMatcher

\* edit_dist
EditDist ==
    /\ call.op = "edit_dist"
    /\ ~call.acted
    /\ call' = [call EXCEPT !.acted = TRUE, !.ret = edit_dist(call.word, call.word2)]
    /\ UNCHANGED <<trie, words_in_trie, filename, file_changed, fault, hist, snap,
                   file, clock, io, matcher>>

\* lines 618-627 of enchant_pwl_suggest: the list is empty and the matcher
\* has its budget; the trie is not walked yet
InitSuggestCb ==
    /\ trie = NullTrie
    /\ words_in_trie = EmptyTable
    /\ filename = NULL
    /\ file_changed = 0
    /\ fault = FALSE
    /\ hist = [W |-> {}, first |-> EmptyTable]
    /\ snap = NoSnap
    /\ file = NoFile
    /\ clock = 0
    /\ io = NoIO
    /\ \E max_dist \in 0..ENCHANT_PWL_MAX_ERRORS :
          /\ matcher = enchant_trie_matcher_init(<<>>, max_dist, "case_insensitive",
                                                 "enchant_pwl_suggest_cb", <<>>)
          /\ call = [NoCall EXCEPT !.op = "suggest", !.maxerrs = max_dist]

\* the walk of enchant_trie_find_matches reaches a string with num_errors
\* errors within the budget (lines 835 and 859) and calls the callback.  The
\* strings come in the order of the alphabet, and a string of the list or
\* any string with fewer errors may come again.
SuggestCb(match, num_errors) ==
    /\ call.op \in {"suggest", "suggest_cb"}
    /\ num_errors <= matcher.max_errors
    /\ LET suggs == matcher.cbdata.suggs
       IN  IF suggs = <<>> \/ num_errors < matcher.max_errors THEN TRUE
           ELSE (\E i \in 1..Len(suggs) : suggs[i] = match)
                    \/ match[1] = suggs[Len(suggs)][1] + 1
    /\ matcher' = enchant_pwl_suggest_cb(match, [matcher EXCEPT !.num_errors = num_errors])
    /\ call' = [call EXCEPT !.op = "suggest_cb", !.word = match,
                            !.acted = \A i \in 1..Len(matcher.cbdata.suggs) :
                                          matcher.cbdata.suggs[i] # match,
                            !.keys = matcher.cbdata.suggs]
    /\ UNCHANGED <<trie, words_in_trie, filename, file_changed, fault, hist, snap,
                   file, clock, io>>

SuggestCbAny ==
    \E match \in MatchStrings, num_errors \in 0..ENCHANT_PWL_MAX_ERRORS :
        SuggestCb(match, num_errors)

\* enchant_trie_insert called on the trie without the test of line 287;
\* snap keeps the trie before the call
TrieInsert(word) ==
    /\ Cardinality(hist.W \cup {word}) <= MaxWords
    /\ trie' = enchant_trie_insert(trie, word)
    /\ hist' = HistAdd(hist, word)
    /\ call' = [NoCall EXCEPT !.op = "trie_insert", !.word = word, !.acted = TRUE]
    /\ snap' = [taken |-> TRUE, word |-> word, trie |-> trie, words |-> words_in_trie]
    /\ UNCHANGED <<words_in_trie, filename, file_changed, fault, file, clock, io, matcher>>

TrieInsertAny == \E w \in AddWords : TrieInsert(g_utf8_normalize(w))

AddAny == \E w \in AddWords : Add(w, FALSE)

RemoveAny == \E w \in AddWords, o \in KeyOrders : Remove(w, o, FALSE)

CheckAny == \E w \in QueryWords, o \in KeyOrders : Check(w, o)

SuggestAny == \E w \in QueryWords, s \in BaselineSuggs, o \in KeyOrders : Suggest(w, s, o)

FindMatchesAny ==
    \E w \in QueryWords, e \in 0..ENCHANT_PWL_MAX_ERRORS,
       mo \in {"case_sensitive", "case_insensitive"}, o \in KeyOrders :
        FindMatches(w, e, mo, o)

AddSnap == \E w \in AddWords : Add(w, TRUE)

RemoveSnap == \E w \in AddWords, o \in KeyOrders : Remove(w, o, TRUE)

FileAddAny == \E w \in FileWords : Add(w, FALSE)

FileRemoveAny == \E w \in FileWords, o \in KeyOrders : Remove(w, o, FALSE)

FileCheckAny == \E w \in FileWords, o \in KeyOrders : Check(w, o)

FileNfdAddAny == \E w \in FileNfdWords : Add(w, FALSE)

FileNfdRemoveAny == \E w \in FileNfdWords, o \in KeyOrders : Remove(w, o, FALSE)

FileSuggestAny ==
    \E w \in FileWords, s \in BaselineSuggs, o \in KeyOrders : Suggest(w, s, o)

ExternalWriteAny == \E c \in FileContents : ExternalWrite(c)

\* add, remove and check
Next == AddAny \/ RemoveAny \/ CheckAny

Spec == Init /\ [][Next]_vars

\* add, remove and suggest
NextSuggest == AddAny \/ RemoveAny \/ SuggestAny

SpecSuggest == Init /\ [][NextSuggest]_vars

\* add, remove and runs of the matcher
NextMatcher == AddAny \/ RemoveAny \/ FindMatchesAny

SpecMatcher == Init /\ [][NextMatcher]_vars

\* edit_dist on its own
NextDist == EditDist

SpecDist == InitDist /\ [][NextDist]_vars

\* a file-backed PWL that alone writes its file: add, remove and check, and
\* the passing of time
NextFile == FileAddAny \/ FileRemoveAny \/ FileCheckAny \/ Tick

SpecFile == InitFile /\ [][NextFile]_vars

\* a file-backed PWL that alone writes its file: add, remove and suggest
NextFileSuggest == FileAddAny \/ FileRemoveAny \/ FileSuggestAny \/ Tick

SpecFileSuggest == InitFile /\ [][NextFileSuggest]_vars

\* a file-backed PWL that alone writes its file, with words that are given
\* in more than one normalization form
NextFileNfd == FileNfdAddAny \/ FileNfdRemoveAny \/ Tick

SpecFileNfd == InitFile /\ [][NextFileNfd]_vars

\* a file-backed PWL and another writer of its file
NextFileExt == FileAddAny \/ FileCheckAny \/ ExternalWriteAny \/ Tick

SpecFileExt == InitFile /\ [][NextFileExt]_vars

\* the callbacks of one suggest
NextSuggestCb == SuggestCbAny

SpecSuggestCb == InitSuggestCb /\ [][NextSuggestCb]_vars

\* add alone; snap keeps the PWL before the add
NextInsert == AddSnap

SpecInsert == Init /\ [][NextInsert]_vars

\* inserts into the trie, of new words and of words it stores
NextTrieInsert == TrieInsertAny

SpecTrieInsert == Init /\ [][NextTrieInsert]_vars

\* add and remove
NextMutate == AddAny \/ RemoveAny

SpecMutate == Init /\ [][NextMutate]_vars

\* add and remove, keeping the PWL from before an add up to the remove of
\* the same word that follows it
NextRoundTrip == AddSnap \/ RemoveSnap

SpecRoundTrip == Init /\ [][NextRoundTrip]_vars

(***************************************************************************)
(* The notions the claims are stated in.                                   *)
(***************************************************************************)
NFD(w) == g_utf8_normalize(w)

\* the NFD forms of the words added and not removed since
Stored == {NFD(w) : w \in hist.W}

\* at least one uppercase letter, and no lowercase or title-case letter
AllCapsWord(w) ==
    /\ \E i \in DOMAIN w : g_unichar_type(w[i]) = "UPPERCASE_LETTER"
    /\ ~\E i \in DOMAIN w : g_unichar_type(w[i]) \in {"LOWERCASE_LETTER", "TITLECASE_LETTER"}

\* the first scalar is an uppercase or title-case letter that is its own
\* title-case form, and no later scalar is an uppercase or title-case letter
TitleCaseWord(w) ==
    /\ g_unichar_type(w[1]) \in {"UPPERCASE_LETTER", "TITLECASE_LETTER"}
    /\ g_unichar_totitle(w[1]) = w[1]
    /\ ~\E i \in DOMAIN w :
          i > 1 /\ g_unichar_type(w[i]) \in {"UPPERCASE_LETTER", "TITLECASE_LETTER"}

Lowercased(w) == [i \in DOMAIN w |-> g_unichar_tolower(w[i])]

Uppercased(w) == [i \in DOMAIN w |-> g_unichar_toupper(w[i])]

TitleCased(w) ==
    [i \in DOMAIN w |-> IF i = 1 THEN g_unichar_totitle(g_unichar_toupper(w[1]))
                        ELSE g_unichar_tolower(g_unichar_toupper(w[i]))]

\* C1: for a PWL without backing file, check(w) returns 0 (found) for every
\* word w that was added, and for every word whose NFD form is the NFD form
\* of a word that was added.
C1_Membership ==
    (call.op = "check" /\ \E w \in hist.W : NFD(w) = NFD(call.word)) => call.ret = 0

\* a word that was not added itself is found through its NFD form, while
\* other words are stored as well
C1_Witness ==
    /\ call.op = "check"
    /\ call.word \notin hist.W
    /\ NFD(call.word) \in Stored
    /\ Cardinality(hist.W) >= 2
    /\ call.ret = 0

\* close(W) of the claim: W and the lowercased forms of its title-case and
\* all-caps members
Close(W) == W \cup {Lowercased(w) : w \in {x \in W : TitleCaseWord(x) \/ AllCapsWord(x)}}

\* C2 as stated: check(w) returns 1 (not found) for every w outside close(W).
C2_NegationAsStated ==
    (call.op = "check" /\ call.word \notin Close(hist.W)) => call.ret = 1

\* the words check accepts for the stored set: a word whose NFD form is
\* stored, a title-case or all-caps word whose lowercased form is stored, an
\* all-caps word whose title-cased form is stored
Accepted(w) ==
    \/ NFD(w) \in Stored
    \/ (TitleCaseWord(w) \/ AllCapsWord(w)) /\ NFD(Lowercased(w)) \in Stored
    \/ AllCapsWord(w) /\ NFD(TitleCased(w)) \in Stored

\* C2 as amended: check(w) returns 1 (not found) for every word w that is
\* outside the closure taken in the direction check takes it: w is not
\* NFD-equal to an added word, w is not a title-case or all-caps word whose
\* lowercased form is NFD-equal to an added word, and w is not an all-caps
\* word whose title-cased form is NFD-equal to an added word.
C2_Negation ==
    (call.op = "check" /\ ~Accepted(call.word)) => call.ret = 1

\* a title-case or all-caps word is rejected while its lowercased form is
\* stored in another case (neither it nor its case variants were added)
C2_Witness ==
    /\ call.op = "check"
    /\ call.ret = 1
    /\ AllCapsWord(call.word) \/ TitleCaseWord(call.word)
    /\ hist.W # {}
    /\ \E w \in hist.W : Lowercased(NFD(w)) = Lowercased(NFD(call.word))

\* C3: check(word) returns found exactly when the NFD form of word is
\* stored, or word is title-case or all-caps and its lowercased form is
\* stored, or word is all-caps and its title-cased form is stored; a stored
\* title-case word does not make its lowercase form found.
C3_CheckExact ==
    call.op = "check" =>
        /\ (call.ret = 0) = Accepted(call.word)
        /\ call.ret \in {0, 1}
        /\ (~TitleCaseWord(call.word) /\ ~AllCapsWord(call.word)
            /\ NFD(call.word) \notin Stored) => call.ret = 1

\* an all-caps word is found through its title-cased form only
C3_Witness ==
    /\ call.op = "check"
    /\ call.ret = 0
    /\ AllCapsWord(call.word) /\ ~TitleCaseWord(call.word)
    /\ NFD(call.word) \notin Stored
    /\ NFD(Lowercased(call.word)) \notin Stored
    /\ NFD(TitleCased(call.word)) \in Stored

\* "Hello" is stored and "hello" is not found
C3_WitnessLower ==
    /\ call.op = "check"
    /\ call.ret = 1
    /\ \E w \in hist.W : TitleCaseWord(w) /\ Lowercased(w) = call.word

RECURSIVE Nodes(_)
\* the nodes of a trie: the trie itself and the nodes below it, the
\* end-of-string marker aside
Nodes(t) ==
    IF t = NullTrie \/ t = EOSTrie THEN {}
    ELSE {t} \cup (IF t.subtries = NULL THEN {}
                   ELSE UNION {Nodes(t.subtries[1][k]) : k \in DOMAIN t.subtries[1]})

\* the children of a node
Children(n) ==
    IF n.subtries = NULL THEN {}
    ELSE {n.subtries[1][k] : k \in DOMAIN n.subtries[1]}

IsLeaf(n) == n # NullTrie /\ n.value # NULL

IsBranch(n) == n # NullTrie /\ n # EOSTrie /\ n.value = NULL /\ n.subtries # NULL

\* a node without value and without children
IsEmptyNode(n) == n # NullTrie /\ n # EOSTrie /\ n.value = NULL /\ Children(n) = {}

\* C5: no node without a value and without children remains attached to its
\* parent, and once every added word is removed the root is Empty (NULL).
C5_NoEmptyNode ==
    /\ \A n \in Nodes(trie) : \A c \in Children(n) : ~IsEmptyNode(c)
    /\ hist.W = {} => trie = NullTrie

\* C6: after a remove, no Branch has exactly one child that is a Leaf.
C6_Collapse ==
    (call.op = "remove" /\ call.acted) =>
        \A n \in Nodes(trie) :
            IsBranch(n) => ~(Cardinality(DOMAIN n.subtries[1]) = 1
                             /\ \E c \in Children(n) : IsLeaf(c))

\* the answers of check and suggest of two PWLs to every query are the same
SameAnswers(t1, w1, t2, w2) ==
    \A q \in QueryWords, o \in KeyOrders :
        /\ enchant_pwl_check(t1, q, o) = enchant_pwl_check(t2, q, o)
        /\ \A s \in BaselineSuggs :
              enchant_pwl_suggest(t1, w1, q, s, o).list
                  = enchant_pwl_suggest(t2, w2, q, s, o).list

\* C4, for a word w whose NFD form is not stored: adding w and then removing
\* w leaves the answers of check and suggest as they were before the add,
\* for every query.
C4_RoundTrip ==
    (call.op = "remove" /\ snap.taken /\ NFD(snap.word) \notin {NFD(w) : w \in hist.W}
        /\ NFD(snap.word) \notin DOMAIN snap.words) =>
        SameAnswers(trie, words_in_trie, snap.trie, snap.words)

(***************************************************************************)
(* Edit distances as the claims define them.                               *)
(***************************************************************************)
\* a stored scalar k and a query scalar c count as the same scalar
SameScalar(k, c, fold) ==
    \/ k = c
    \/ fold /\ (g_unichar_tolower(k) = c \/ k = g_unichar_toupper(c))

RECURSIVE Alignment(_, _, _)
\* the least number of insertions, deletions, substitutions and
\* transpositions of two adjacent scalars that turn s into q when no scalar
\* is edited twice (optimal string alignment); with fold, case is ignored
Alignment(s, q, fold) ==
    IF s = <<>> THEN Len(q)
    ELSE IF q = <<>> THEN Len(s)
    ELSE LET del == 1 + Alignment(Tail(s), q, fold)
             ins == 1 + Alignment(s, Tail(q), fold)
             sub == (IF SameScalar(Head(s), Head(q), fold) THEN 0 ELSE 1)
                        + Alignment(Tail(s), Tail(q), fold)
             best == Min(Min(del, ins), sub)
         IN  IF /\ Len(s) >= 2 /\ Len(q) >= 2
                /\ SameScalar(s[1], q[2], fold) /\ SameScalar(s[2], q[1], fold)
             THEN Min(best, 1 + Alignment(Tail(Tail(s)), Tail(Tail(q)), fold))
             ELSE best

\* the strings one edit operation away from s, of at most n scalars
Neighbours(s, alphabet, n) ==
    {SubSeq(s, 1, i - 1) \o SubSeq(s, i + 1, Len(s)) : i \in 1..Len(s)}
    \cup {[s EXCEPT ![i] = c] : i \in 1..Len(s), c \in alphabet}
    \cup {SubSeq(s, 1, i) \o <<c>> \o SubSeq(s, i + 1, Len(s)) :
            i \in (IF Len(s) < n THEN 0..Len(s) ELSE {}), c \in alphabet}
    \cup {[s EXCEPT ![i] = s[i + 1], ![i + 1] = s[i]] : i \in 1..(Len(s) - 1)}

RECURSIVE MinOperations(_, _, _, _, _)
MinOperations(reached, b, alphabet, n, k) ==
    IF b \in reached THEN k
    ELSE MinOperations(reached \cup UNION {Neighbours(s, alphabet, n) : s \in reached},
                       b, alphabet, n, k + 1)

\* the Damerau-Levenshtein distance: the minimum number of insertions,
\* deletions, substitutions and adjacent transpositions that turns a into b
DamerauLevenshtein(a, b) ==
    MinOperations({a}, b, {a[i] : i \in DOMAIN a} \cup {b[i] : i \in DOMAIN b},
                  IF Len(a) > Len(b) THEN Len(a) ELSE Len(b), 0)

\* the strings a run of the matcher gave to its callback
Emitted == {call.calls[i][1] : i \in DOMAIN call.calls}

\* the query as the matcher searches for it
Query == IF call.mode = "case_insensitive" THEN Lowercased(NFD(call.word))
         ELSE NFD(call.word)

RECURSIVE MinOver(_, _, _)
\* the least Alignment distance of w to a string of the list, at most best
MinOver(list, w, best) ==
    IF list = <<>> THEN best
    ELSE MinOver(Tail(list), w, Min(best, Alignment(w, NFD(Head(list)), FALSE)))

\* the baseline list is given, and its best distance to the word is b
BaselineBest(b) ==
    /\ call.suggs # NULL
    /\ call.suggs[1] # <<>>
    /\ b = MinOver(call.suggs[1], NFD(call.word), ENCHANT_PWL_MAX_ERRORS + Len(NFD(call.word)))

\* C7 as stated: every string suggest returns lies within max_dist edit
\* distance of NFD(w), max_dist <= 3; when the baseline list has best
\* distance b < 3, no returned string has a distance greater than b.
C7_SoundAsStated ==
    (call.op = "suggest" /\ call.acted) =>
        /\ call.maxerrs <= ENCHANT_PWL_MAX_ERRORS
        /\ \A i \in DOMAIN call.list :
              /\ Alignment(NFD(call.list[i]), NFD(call.word), FALSE) <= call.maxerrs
              /\ \A b \in 0..(ENCHANT_PWL_MAX_ERRORS - 1) :
                    BaselineBest(b) =>
                        Alignment(NFD(call.list[i]), NFD(call.word), FALSE) <= b

\* C7 as amended: every string suggest returns is the returned form of a
\* stored key that lies within max_dist of the lowercased NFD(w) when case
\* is ignored (a stored scalar matches a query scalar that it is equal to,
\* that it lowercases to or whose uppercase form it is), max_dist <= 3; when
\* the baseline list has best distance b < 3, no such key has a distance
\* greater than b.
C7_Sound ==
    (call.op = "suggest" /\ call.acted) =>
        /\ call.maxerrs <= ENCHANT_PWL_MAX_ERRORS
        /\ Len(call.keys) = Len(call.list)
        /\ \A i \in DOMAIN call.keys :
              /\ call.keys[i] \in Stored
              /\ Alignment(call.keys[i], Query, TRUE) <= call.maxerrs
              /\ \A b \in 0..(ENCHANT_PWL_MAX_ERRORS - 1) :
                    BaselineBest(b) => Alignment(call.keys[i], Query, TRUE) <= b

\* a baseline of best distance below 3 is given and a string is returned
\* that differs from the word in case only, by more than max_dist scalars
C7_Witness ==
    /\ call.op = "suggest" /\ call.acted
    /\ \E b \in 0..(ENCHANT_PWL_MAX_ERRORS - 1) : BaselineBest(b)
    /\ \E i \in DOMAIN call.list :
          /\ Alignment(NFD(call.list[i]), NFD(call.word), FALSE) > call.maxerrs
          /\ Alignment(call.keys[i], Query, TRUE) <= call.maxerrs

\* C8: a run of the matcher with budget max_errors emits every stored string
\* whose edit distance to the query, a transposition counted as one error,
\* is at most max_errors; with "ab" and "ba" stored, a case-sensitive search
\* for "ab" with budget 1 emits "ba".
C8_Complete ==
    (call.op = "find_matches" /\ call.mode = "case_sensitive") =>
        \A s \in Stored :
            Alignment(s, Query, FALSE) <= call.maxerrs => s \in Emitted

\* C9 as stated: edit_dist(a, b) is the Damerau-Levenshtein distance of a
\* and b, the minimum number of insertions, deletions, substitutions and
\* adjacent transpositions that turns a into b.
C9_DistAsStated ==
    (call.op = "edit_dist" /\ call.acted) =>
        call.ret = DamerauLevenshtein(call.word, call.word2)

\* C9 as amended: edit_dist(a, b) is the optimal string alignment distance
\* of a and b, the minimum number of insertions, deletions, substitutions
\* and adjacent transpositions that turns a into b when no scalar is edited
\* more than once.
C9_Dist ==
    (call.op = "edit_dist" /\ call.acted) =>
        call.ret = Alignment(call.word, call.word2, FALSE)

\* edit_dist has counted a transposition as one error, on two strings whose
\* Damerau-Levenshtein distance is smaller than what it returns
C9_Witness ==
    /\ call.op = "edit_dist" /\ call.acted
    /\ call.word = <<"a", "b", "c">> /\ call.word2 = <<"c", "a">>
    /\ call.ret = 3

\* what suggest returns for a stored form, given the query
Returned(form, query) ==
    IF AllCapsWord(form) THEN form
    ELSE IF TitleCaseWord(query) THEN TitleCased(form)
    ELSE IF AllCapsWord(query) THEN Uppercased(form)
    ELSE form

\* C10: each string suggest returns is the form with which the matching
\* word was first added; a title-case query has it converted to title-case,
\* an all-caps query to all-caps, and a form that is all-caps itself is
\* returned unchanged.
C10_CasePreserved ==
    (call.op = "suggest" /\ call.acted) =>
        /\ Len(call.list) = Len(call.keys)
        /\ \A i \in DOMAIN call.list :
              /\ call.keys[i] \in DOMAIN hist.first
              /\ call.list[i] = Returned(hist.first[call.keys[i]], call.word)

\* the form that was added first is not the only one added, and suggest has
\* converted it for a title-case or all-caps query
C10_Witness ==
    /\ call.op = "suggest" /\ call.acted
    /\ \E i \in DOMAIN call.list :
          /\ call.keys[i] \in DOMAIN hist.first
          /\ call.list[i] # hist.first[call.keys[i]]
          /\ \E w \in hist.W : NFD(w) = call.keys[i] /\ w # hist.first[call.keys[i]]

(***************************************************************************)
(* The file-backed PWL.                                                    *)
(***************************************************************************)
\* two contents of the file differ at most by one trailing newline
SameUpToNewline(c1, c2) ==
    c1 = c2 \/ c1 = c2 \o <<"LF">> \/ c2 = c1 \o <<"LF">>

\* C11: for a file-backed PWL, adding the same word twice leaves the trie,
\* words_in_trie and the backing file as adding it once leaves them, up to
\* a single trailing newline in the file.
C11_AddTwice ==
    (call.op = "add" /\ io.twice) =>
        /\ trie = io.before.trie
        /\ words_in_trie = io.before.words_in_trie
        /\ SameUpToNewline(file.contents, io.before.contents)

\* the NFD forms of the words the lines of the file are
FileStored ==
    {NFD(w) : w \in HistOfFile(file.contents, TRUE, [W |-> {}, first |-> EmptyTable]).W}

\* the words check accepts when S is the set of the stored NFD forms
AcceptedFrom(S, w) ==
    \/ NFD(w) \in S
    \/ (TitleCaseWord(w) \/ AllCapsWord(w)) /\ NFD(Lowercased(w)) \in S
    \/ AllCapsWord(w) /\ NFD(TitleCased(w)) \in S

\* C12 as stated: when another writer changes the file between two check
\* calls, the second check answers according to the new content of the file.
C12_RefreshAsStated ==
    (call.op = "check" /\ io.prev = "check" /\ io.ext) =>
        (call.ret = 0 <=> AcceptedFrom(FileStored, call.word))

\* C12 as amended: when another writer changes the file between two check
\* calls and leaves it with a modification time (in whole seconds) other than
\* the last_mtime the PWL has recorded, the second check answers according
\* to the new content of the file.
C12_Refresh ==
    (call.op = "check" /\ io.prev = "check" /\ io.ext /\ io.last_mtime # file.st_mtime) =>
        (call.ret = 0 <=> AcceptedFrom(FileStored, call.word))

\* the second check finds a word of the new content after the change was
\* noticed by its modification time
C12_Witness ==
    /\ call.op = "check" /\ io.prev = "check" /\ io.ext
    /\ io.last_mtime # file.st_mtime
    /\ io.read
    /\ call.ret = 0
    /\ Cardinality(FileStored) >= 2

\* the list of the suggest under way: strings and their error counts
SuggList == matcher.cbdata

\* C13: after every callback of a suggest the list is sorted by ascending
\* num_errors, holds no string twice and holds at most 15 entries (so that
\* suggest returns at most 15 strings).
C13_ListShape ==
    call.op = "suggest_cb" =>
        /\ Len(SuggList.suggs) = Len(SuggList.sugg_errs)
        /\ \A i, j \in 1..Len(SuggList.suggs) :
              i < j => /\ SuggList.sugg_errs[i] <= SuggList.sugg_errs[j]
                       /\ SuggList.suggs[i] # SuggList.suggs[j]
        /\ Len(SuggList.suggs) <= ENCHANT_PWL_MAX_SUGGS

\* the list is full and the callback has been offered a further string that
\* is not in it
C13_Witness ==
    /\ call.op = "suggest_cb"
    /\ call.acted
    /\ Len(call.keys) = ENCHANT_PWL_MAX_SUGGS
    /\ Len(SuggList.suggs) = ENCHANT_PWL_MAX_SUGGS

\* C14 as stated: the budget of suggest is min(3, best distance of a
\* baseline suggestion to the word) when baseline suggestions are given and
\* 3 when none are given; the length of the word does not enter.
C14_BudgetAsStated ==
    call.op = "suggest" =>
        call.maxerrs =
            IF call.suggs # NULL /\ call.suggs[1] # <<>>
            THEN MinOver(call.suggs[1], NFD(call.word), ENCHANT_PWL_MAX_ERRORS)
            ELSE ENCHANT_PWL_MAX_ERRORS

\* C14 as amended: when a baseline list is given, be it empty, the budget is
\* the least of 3, the number of scalars of NFD(word) and the distances of
\* the baseline suggestions to the word; when no list is given it is 3.
C14_Budget ==
    call.op = "suggest" =>
        call.maxerrs =
            IF call.suggs # NULL
            THEN MinOver(call.suggs[1], NFD(call.word),
                         Min(ENCHANT_PWL_MAX_ERRORS, Len(NFD(call.word))))
            ELSE ENCHANT_PWL_MAX_ERRORS

\* a baseline list is given whose best distance is within 3 and the word is
\* shorter than that: the budget is the length of the word
C14_Witness ==
    /\ call.op = "suggest"
    /\ call.suggs # NULL /\ call.suggs[1] # <<>>
    /\ Len(NFD(call.word)) <
          MinOver(call.suggs[1], NFD(call.word), ENCHANT_PWL_MAX_ERRORS)
    /\ call.maxerrs = Len(NFD(call.word))
    /\ call.list # <<>>

\* the characters that end a line
Newlines == {"LF", "CR"}

\* the word stands at the 0-based position i of the content as a whole line;
\* the first line starts behind a byte-order mark
WholeLineAt(c, i, w) ==
    LET filestart == IF c # <<>> /\ Head(c) = "BOM" THEN 1 ELSE 0
    IN  /\ i \in filestart..(Len(c) - Len(w))
        /\ SubSeq(c, i + 1, i + Len(w)) = w
        /\ (i = filestart \/ c[i] \in Newlines)
        /\ (i + Len(w) = Len(c) \/ c[i + Len(w) + 1] \in Newlines)

\* the positions of the whole-line occurrences of the word and of the one
\* line end behind each: "CR" "LF", "LF" or "CR"
LinePositions(c, w) ==
    {p \in 1..Len(c) : \E i \in 0..Len(c) :
        /\ WholeLineAt(c, i, w)
        /\ \/ p \in (i + 1)..(i + Len(w))
           \/ p = i + Len(w) + 1 /\ c[p] \in Newlines
           \/ p = i + Len(w) + 2 /\ c[p - 1] = "CR" /\ c[p] = "LF"}

\* the positions of the whole-line occurrences of the word and of all the
\* line-end characters that follow each
RunPositions(c, w) ==
    {p \in 1..Len(c) : \E i \in 0..Len(c) :
        /\ WholeLineAt(c, i, w)
        /\ \/ p \in (i + 1)..(i + Len(w))
           \/ p > i + Len(w) /\ \A q \in (i + Len(w) + 1)..p : c[q] \in Newlines}

RECURSIVE Without(_, _, _)
\* the content from position k on, without the positions of P
Without(c, P, k) ==
    IF k > Len(c) THEN <<>>
    ELSE (IF k \in P THEN <<>> ELSE <<c[k]>>) \o Without(c, P, k + 1)

\* C15 as stated: a remove that rewrites the file leaves the old content
\* without the whole-line occurrences of the word, every other line kept
\* byte for byte and in order, and the file is not longer than before.
C15_RewriteAsStated ==
    (call.op = "remove" /\ io.wrote) =>
        /\ file.contents = Without(io.before.contents,
                                   LinePositions(io.before.contents, io.word), 1)
        /\ Len(file.contents) <= Len(io.before.contents)

\* C15 as amended: a remove that rewrites the file leaves the old content
\* without the whole-line occurrences of the word and without the run of
\* line-end characters behind each of them (so the empty lines behind a
\* dropped line go as well); all other characters are kept in order, and the
\* file is not longer than before.
C15_Rewrite ==
    (call.op = "remove" /\ io.wrote) =>
        /\ file.contents = Without(io.before.contents,
                                   RunPositions(io.before.contents, io.word), 1)
        /\ Len(file.contents) <= Len(io.before.contents)

\* a line is dropped with the empty line behind it, while a line that holds
\* the word as a part is kept
C15_Witness ==
    /\ call.op = "remove" /\ io.wrote
    /\ LinePositions(io.before.contents, io.word) # {}
    /\ RunPositions(io.before.contents, io.word) # LinePositions(io.before.contents, io.word)
    /\ strstr(file.contents, 0, io.word) # -1

(***************************************************************************)
(* The shape of the trie.                                                  *)
(***************************************************************************)
RECURSIVE TrieStrings(_)
\* the strings a trie stores
TrieStrings(t) ==
    IF t = NullTrie THEN {}
    ELSE IF t = EOSTrie THEN {<<>>}
    ELSE IF t.value # NULL THEN {t.value[1]}
    ELSE IF t.subtries = NULL THEN {}
    ELSE UNION {{k \o x : x \in TrieStrings(t.subtries[1][k])} : k \in DOMAIN t.subtries[1]}

\* the number of entries of the children map of a Branch
NumChildren(n) == Cardinality(DOMAIN n.subtries[1])

\* C16 as stated: every Branch of a reachable trie has at least 2 children.
C16_BranchAsStated ==
    \A n \in Nodes(trie) : IsBranch(n) => NumChildren(n) >= 2

\* C16 as amended: in a trie built by inserts alone every Branch has at
\* least 1 child and stores at least 2 strings, so that a single child of a
\* Branch is never a Leaf.
C16_Branch ==
    \A n \in Nodes(trie) :
        IsBranch(n) =>
            /\ NumChildren(n) >= 1
            /\ Cardinality(TrieStrings(n)) >= 2
            /\ NumChildren(n) = 1 => \A c \in Children(n) : ~IsLeaf(c)

\* a Branch with a single child above a Branch with two children
C16_Witness ==
    \E n \in Nodes(trie) :
        /\ IsBranch(n)
        /\ NumChildren(n) = 1
        /\ \E c \in Children(n) : IsBranch(c) /\ NumChildren(c) = 2

\* C17 as stated: the insert of a word into a node that is Leaf(v), v the
\* word, is a no-op: the node stays Leaf(v) and the trie is unchanged.
C17_InsertEqualAsStated ==
    (call.op = "trie_insert" /\ IsLeaf(snap.trie) /\ snap.trie.value[1] = call.word) =>
        trie = snap.trie

\* C17 as amended: the insert of a word the trie stores leaves the set of
\* the stored strings as it is, and when the node is Leaf(v), v the word,
\* the node does not stay a Leaf: it becomes a Branch.
C17_InsertEqual ==
    (call.op = "trie_insert" /\ call.word \in TrieStrings(snap.trie)) =>
        /\ TrieStrings(trie) = TrieStrings(snap.trie)
        /\ (IsLeaf(snap.trie) /\ snap.trie.value[1] = call.word) =>
              /\ IsBranch(trie)
              /\ trie # snap.trie

\* a Leaf has been given its own word, of more than one scalar
C17_Witness ==
    /\ call.op = "trie_insert"
    /\ IsLeaf(snap.trie)
    /\ snap.trie.value[1] = call.word
    /\ Len(call.word) >= 2
    /\ IsBranch(trie)

(***************************************************************************)
(* The callbacks of one run of the matcher.                                *)
(***************************************************************************)
\* every string the callback is given is stored and lies within the budget,
\* by the count of the matcher and by its distance to the query
WithinBudget ==
    \A i \in DOMAIN call.calls :
        /\ call.calls[i][1] \in TrieStrings(trie)
        /\ call.calls[i][2] <= call.maxerrs
        /\ Alignment(call.calls[i][1], Query, call.mode = "case_insensitive")
              <= call.maxerrs

\* C18 as stated: in one run of the matcher the callback is invoked at most
\* once for each stored string, and only for strings within the budget.
C18_OncePerStringAsStated ==
    call.op = "find_matches" =>
        /\ \A i, j \in DOMAIN call.calls :
              call.calls[i][1] = call.calls[j][1] => i = j
        /\ WithinBudget

\* C18 as amended: in one run of the matcher the callback is invoked only
\* for stored strings within the budget, and it may be invoked more than
\* once for the same string.
C18_OnlyWithinBudget ==
    call.op = "find_matches" => WithinBudget

\* the callback has been given the same string twice, and another string
C18_Witness ==
    /\ call.op = "find_matches"
    /\ \E i, j \in DOMAIN call.calls : i # j /\ call.calls[i][1] = call.calls[j][1]
    /\ \E i, j \in DOMAIN call.calls : call.calls[i][1] # call.calls[j][1]

\* C19: in add and in remove of a file-backed PWL the file is written before
\* last_mtime is read again from it, so that after the call file_changed is
\* the modification time the PWL's own write has left.
C19_MtimeAfterWrite ==
    (call.op \in {"add", "remove"} /\ io.wrote) => file_changed = file.st_mtime

\* C20: after any sequence of add, remove and refresh the keys of
\* words_in_trie are the strings the trie stores; hence no call has come to
\* grief over a string that is in one and not in the other, a remove that
\* calls enchant_trie_remove takes a stored string out of the trie, and every
\* string the matcher gives to the callback of suggest is a key of
\* words_in_trie.
C20_KeysAreStrings ==
    /\ DOMAIN words_in_trie = TrieStrings(trie)
    /\ ~fault
    /\ (call.op = "remove" /\ call.acted) =>
          /\ NFD(io.word) \in TrieStrings(io.before.trie) \/ io.read
          /\ NFD(io.word) \notin TrieStrings(trie)
    /\ call.op = "suggest" =>
          \A i \in DOMAIN call.calls : call.calls[i][1] \in DOMAIN words_in_trie

\* a remove has read the file again, has taken a string out of the trie and
\* has left another in it
C20_Witness ==
    /\ call.op = "remove" /\ call.acted
    /\ io.read
    /\ NFD(io.word) \notin TrieStrings(trie)
    /\ TrieStrings(trie) # {}

\* the callback of suggest has been given strings after the file was read
\* again
C20_WitnessSuggest ==
    /\ call.op = "suggest"
    /\ io.read
    /\ Len(call.calls) >= 2

(***************************************************************************)
(* The file and the memory.                                                *)
(***************************************************************************)
\* the PWL that enchant_pwl_init_with_file builds from the file as it is
Rebuilt == refresh_lines(file.contents, 1, NullTrie, EmptyTable)

\* C21: for a file-backed PWL whose file nobody else writes, after any
\* sequence of add and remove calls the PWL rebuilt from the file stores the
\* same words as the PWL in memory: check answers the same for every word.
C21_FileIsMemory ==
    call.op \in {"add", "remove"} =>
        /\ DOMAIN Rebuilt[2] = DOMAIN words_in_trie
        /\ \A w \in QueryWords, o \in KeyOrders :
              enchant_pwl_check(Rebuilt[1], w, o) = enchant_pwl_check(trie, w, o)

====
